---- MODULE Spec2Model ----
(***************************************************************************)
(* The file-level writer of file_writer.go: FileWriter with AddData,       *)
(* FlushRowGroup, Close, CurrentRowGroupSize and CurrentFileSize, over a   *)
(* position-tracking sink, a row-group accumulator, a row-group serializer *)
(* and a footer encoder.                                                   *)
(*                                                                         *)
(* Byte strings are run-length sequences: a run [b |-> v, n |-> k] is k    *)
(* bytes of value v.  Sink offsets are int64 in the code and may exceed    *)
(* what one TLC integer holds, so an offset is kept as two 16-bit limbs    *)
(* [hi, lo] standing for hi * 2^16 + lo.                                   *)
(***************************************************************************)
EXTENDS Integers, Sequences, FiniteSets, TLC

\* Bounds of the model.
MaxCalls == 3
MaxFailures == 1

----------------------------------------------------------------------------
\* int64 offsets and the int32 conversion

Base == 256 * 256

Big(n) == [hi |-> n \div Base, lo |-> n % Base]

BigAdd(a, c) ==
    LET s == a.lo + c.lo
    IN  [hi |-> a.hi + c.hi + (s \div Base), lo |-> s % Base]

\* a - c for a >= c
BigSub(a, c) ==
    LET d == a.lo - c.lo
    IN  IF d >= 0 THEN [hi |-> a.hi - c.hi, lo |-> d]
                  ELSE [hi |-> a.hi - c.hi - 1, lo |-> d + Base]

\* Go's int32(x) of an int64 x: the low 32 bits, read as two's complement.
ToInt32(a) ==
    LET h == a.hi % Base
    IN  IF h >= Base \div 2 THEN (h - Base) * Base + a.lo
                            ELSE h * Base + a.lo

\* binary.Write(w, binary.LittleEndian, &ln) for an int32 ln: its 4 bytes,
\* least significant first.
PutInt32LE(v) ==
    LET lo == v % Base
        hi == (v \div Base) % Base
    IN  << [b |-> lo % 256, n |-> 1], [b |-> lo \div 256, n |-> 1],
           [b |-> hi % 256, n |-> 1], [b |-> hi \div 256, n |-> 1] >>

\* What a reader gets back from 4 little-endian bytes read as an int32.
GetInt32LE(bs) ==
    LET lo == bs[1] + 256 * bs[2]
        hi == bs[3] + 256 * bs[4]
    IN  IF hi >= Base \div 2 THEN (hi - Base) * Base + lo
                             ELSE hi * Base + lo

----------------------------------------------------------------------------
\* Byte strings

RECURSIVE BLen(_)
BLen(bs) ==
    IF bs = <<>> THEN Big(0)
    ELSE BigAdd(Big(bs[1].n), BLen(Tail(bs)))

Rep(v, k) == [i \in 1..k |-> v]

\* The first k bytes of bs (all of it when it is shorter), one value per byte.
RECURSIVE FirstBytes(_, _)
FirstBytes(bs, k) ==
    IF k = 0 \/ bs = <<>> THEN <<>>
    ELSE IF bs[1].n >= k THEN Rep(bs[1].b, k)
    ELSE Rep(bs[1].b, bs[1].n) \o FirstBytes(Tail(bs), k - bs[1].n)

\* The last k bytes of bs (all of it when it is shorter), one value per byte.
RECURSIVE LastBytes(_, _)
LastBytes(bs, k) ==
    IF k = 0 \/ bs = <<>> THEN <<>>
    ELSE LET r == bs[Len(bs)]
         IN  IF r.n >= k THEN Rep(r.b, k)
             ELSE LastBytes(SubSeq(bs, 1, Len(bs) - 1), k - r.n) \o Rep(r.b, r.n)

Str(v) == << [b |-> v, n |-> 1] >>

\* "PAR1"
magic == << [b |-> 80, n |-> 1], [b |-> 65, n |-> 1],
            [b |-> 82, n |-> 1], [b |-> 49, n |-> 1] >>

MagicBytes == FirstBytes(magic, 4)

----------------------------------------------------------------------------
\* Inputs

\* Records handed to AddData: the accumulator accepts the valid ones, which
\* add `size` to its buffered size, and rejects the other.
Records ==
    {[valid |-> TRUE, size |-> n] : n \in {1, 2}} \cup {[valid |-> FALSE, size |-> 1]}

\* Values of MaxRowGroupSize: unset (0) or a threshold.
Thresholds == {0, 2}

GiB == 1024 * 1024 * 1024

\* Maps given to MetaData: none, one with an empty and a non-empty value, and
\* one with a value of 2 GiB.
KvStores ==
    { [k \in {} |-> <<>>],
      [k \in {"a", "b"} |-> IF k = "a" THEN <<>> ELSE Str(120)],
      [k \in {"a"} |-> << [b |-> 120, n |-> GiB], [b |-> 120, n |-> GiB] >>] }

\* The orders in which a range over a map with key set S may visit it.
Orders(S) ==
    {p \in [1..Cardinality(S) -> S] : \A i, j \in 1..Cardinality(S) : p[i] = p[j] => i = j}

\* Where a failure is injected into a call and how much of the failing write
\* the sink still accepts: nothing (keep = 0) or all but its last run.
NoFault == [at |-> "none", keep |-> 0]

Faults ==
    {[at |-> a, keep |-> k] : a \in {"magic", "rowgroup"}, k \in {0, 1}}
    \cup {[at |-> "serializer", keep |-> 0]}
    \cup {[at |-> a, keep |-> 1] : a \in {"footer", "len", "trailer"}}

Nil == "nil"
ErrNothingToWrite == "nothing to write"
ErrEncoding == "EncodingError"
ErrIO == "IOError"
ErrSerialize == "SerializeError"

----------------------------------------------------------------------------
VARIABLES
    out,               \* the bytes the underlying io.Writer has accepted
    pos,               \* fw.w.Pos()
    numRecords,        \* records buffered in schemaWriter
    dataSize,          \* schemaWriter.DataSize()
    totalNumRecords,   \* fw.totalNumRecords
    rowGroups,         \* fw.rowGroups
    rowGroupFlushSize, \* fw.rowGroupFlushSize
    kvStore,           \* fw.kvStore
    log,               \* history: the writes issued to the sink
    hist,              \* history: the AddData, FlushRowGroup and Close calls
    obs                \* what the latest call returned, when it was a read

vars == << out, pos, numRecords, dataSize, totalNumRecords, rowGroups,
           rowGroupFlushSize, kvStore, log, hist, obs >>

\* The writer as one value, with the outcome of the call in progress:
\* err (the error returned), cc (the serializer's column chunks) and fired
\* (whether the injected failure happened).
St ==
    [out |-> out, pos |-> pos, numRecords |-> numRecords, dataSize |-> dataSize,
     totalNumRecords |-> totalNumRecords, rowGroups |-> rowGroups,
     rowGroupFlushSize |-> rowGroupFlushSize, kvStore |-> kvStore, log |-> log,
     err |-> Nil, cc |-> <<>>, fired |-> FALSE]

----------------------------------------------------------------------------
\* The position-tracking sink

\* The part of bs the sink accepts before a write of bs fails.
Partial(bs, keep) ==
    IF keep = 0 \/ bs = <<>> THEN <<>> ELSE SubSeq(bs, 1, Len(bs) - 1)

\* One write of bs to the sink, labelled `kind` in the log.  The write fails
\* when the failure f is injected at this kind of write.
Write(s, kind, bs, meta, f) ==
    LET fail == f.at = kind
        acc == IF fail THEN Partial(bs, f.keep) ELSE bs
    IN  [s EXCEPT !.out = @ \o acc,
                  !.pos = BigAdd(@, BLen(acc)),
                  !.log = Append(@, [kind |-> kind, at |-> s.pos, bs |-> acc,
                                     err |-> IF fail THEN ErrIO ELSE Nil,
                                     meta |-> meta]),
                  !.err = IF fail THEN ErrIO ELSE Nil,
                  !.fired = @ \/ fail]

writeFull(s, kind, bs, f) == Write(s, kind, bs, <<>>, f)

----------------------------------------------------------------------------
\* The accumulator (schemaWriter)

rowGroupNumRecords(s) == s.numRecords

DataSize(s) == s.dataSize

schemaAddData(s, rec) ==
    IF rec.valid
    THEN [s EXCEPT !.numRecords = @ + 1, !.dataSize = @ + rec.size, !.err = Nil]
    ELSE [s EXCEPT !.err = ErrEncoding]

resetData(s) == [s EXCEPT !.numRecords = 0, !.dataSize = 0]

----------------------------------------------------------------------------
\* The row-group serializer

\* The bytes of the row group being buffered: a one-byte header carrying the
\* record count and the buffered data.
RowGroupPayload(s) ==
    << [b |-> s.numRecords, n |-> 1], [b |-> 21, n |-> s.dataSize] >>

\* Drains the buffered data into the sink and returns the column chunks.  It
\* fails when the sink fails ("rowgroup") or on its own ("serializer"), in
\* both cases possibly after part of the payload reached the sink.
writeRowGroup(s, f) ==
    LET bs == RowGroupPayload(s)
    IN  IF f.at = "serializer"
        THEN LET w == Write(s, "rowgroup", Partial(bs, f.keep), <<>>, NoFault)
             IN  [w EXCEPT !.err = ErrSerialize, !.fired = TRUE,
                           !.log[Len(w.log)].err = ErrSerialize]
        ELSE LET w == Write(s, "rowgroup", bs, <<>>, f)
             IN  [w EXCEPT !.cc = << [FileOffset |-> s.pos, TotalSize |-> BLen(bs)] >>]

----------------------------------------------------------------------------
\* The footer encoder

RECURSIVE EncodeRowGroups(_)
EncodeRowGroups(rgs) ==
    IF rgs = <<>> THEN <<>>
    ELSE << [b |-> rgs[1].NumRows, n |-> 1] >> \o EncodeRowGroups(Tail(rgs))

KeyBytes(k) == Str(IF k = "a" THEN 97 ELSE 98)

RECURSIVE EncodeKeyValues(_)
EncodeKeyValues(kv) ==
    IF kv = <<>> THEN <<>>
    ELSE KeyBytes(kv[1].Key)
         \o (IF kv[1].Value = <<>>
             THEN << [b |-> 0, n |-> 1] >>
             ELSE << [b |-> 1, n |-> 1] >> \o kv[1].Value[1])
         \o EncodeKeyValues(Tail(kv))

\* The footer blob of a FileMetaData.
EncodeFooter(meta) ==
    << [b |-> meta.Version, n |-> 1], [b |-> meta.NumRows, n |-> 1] >>
    \o EncodeRowGroups(meta.RowGroups)
    \o EncodeKeyValues(meta.KeyValueMetadata)
    \o << [b |-> 0, n |-> 1] >>

writeThrift(s, meta, f) == Write(s, "footer", EncodeFooter(meta), << meta >>, f)

binaryWrite(s, v, f) == Write(s, "len", PutInt32LE(v), <<>>, f)

----------------------------------------------------------------------------
\* The file writer

\* Variant: the record counter is not advanced.
AppendRowGroup_NoCount(s) ==
    resetData(
      [s EXCEPT !.rowGroups = Append(@, [Columns |-> s.cc,
                                         TotalByteSize |-> 0,
                                         NumRows |-> rowGroupNumRecords(s)])])

\* Variant: the new descriptor takes the place of the list.
AppendRowGroup_Replaces(s) ==
    resetData(
      [s EXCEPT !.rowGroups = << [Columns |-> s.cc,
                                  TotalByteSize |-> 0,
                                  NumRows |-> rowGroupNumRecords(s)] >>,
                !.totalNumRecords = @ + rowGroupNumRecords(s)])

\* The descriptor, the record counter and the reset that end a flush.
AppendRowGroup(s) ==
    resetData(
      [s EXCEPT !.rowGroups = Append(@, [Columns |-> s.cc,
                                         TotalByteSize |-> 0,
                                         NumRows |-> rowGroupNumRecords(s)]),
                !.totalNumRecords = @ + rowGroupNumRecords(s)])

\* Variant: the leading magic is never written.
FlushRowGroup_NoMagic(s, f) ==
    IF rowGroupNumRecords(s) = 0
    THEN [s EXCEPT !.err = ErrNothingToWrite]
    ELSE LET s2 == writeRowGroup(s, f)
         IN  IF s2.err # Nil THEN s2 ELSE AppendRowGroup(s2)

\* Variant: the leading magic is written by every flush.
FlushRowGroup_MagicEveryFlush(s, f) ==
    IF rowGroupNumRecords(s) = 0
    THEN [s EXCEPT !.err = ErrNothingToWrite]
    ELSE LET s1 == writeFull(s, "magic", magic, f)
         IN  IF s1.err # Nil THEN s1
             ELSE LET s2 == writeRowGroup(s1, f)
                  IN  IF s2.err # Nil THEN s2 ELSE AppendRowGroup(s2)

\* Variant: the accumulator is reset when the flush fails, too.
FlushBuffered_ResetOnFailure(s, f) ==
    LET s1 == IF s.pos = Big(0) THEN writeFull(s, "magic", magic, f)
                                ELSE [s EXCEPT !.err = Nil]
    IN  IF s1.err # Nil THEN resetData(s1)
        ELSE LET s2 == writeRowGroup(s1, f)
             IN  IF s2.err # Nil THEN resetData(s2) ELSE AppendRowGroup(s2)

\* FlushRowGroup past its empty check: the leading magic at offset 0, the
\* serializer, then the descriptor, the record counter and the reset.
FlushBuffered(s, f) ==
    LET s1 == IF s.pos = Big(0) THEN writeFull(s, "magic", magic, f)
                                ELSE [s EXCEPT !.err = Nil]
    IN  IF s1.err # Nil THEN s1
        ELSE LET s2 == writeRowGroup(s1, f)
             IN  IF s2.err # Nil THEN s2 ELSE AppendRowGroup(s2)

\* Variant: no check for an empty accumulator.
FlushRowGroup_NoEmptyCheck(s, f) == FlushBuffered(s, f)

\* Variant: an empty flush returns no error.
FlushRowGroup_EmptyReturnsNil(s, f) ==
    IF rowGroupNumRecords(s) = 0
    THEN [s EXCEPT !.err = Nil]
    ELSE FlushBuffered(s, f)

\* FlushRowGroup: the empty check, then the flush.
FlushRowGroup(s, f) ==
    IF rowGroupNumRecords(s) = 0
    THEN [s EXCEPT !.err = ErrNothingToWrite]
    ELSE FlushBuffered(s, f)

\* Variant: the auto flush waits until the size is above the threshold.
AddData_StrictlyGreater(s, rec, f) ==
    LET s1 == schemaAddData(s, rec)
    IN  IF s1.err # Nil THEN s1
        ELSE IF s1.rowGroupFlushSize > 0 /\ DataSize(s1) > s1.rowGroupFlushSize
             THEN FlushRowGroup(s1, f)
             ELSE s1

\* Variant: the accumulator's error is dropped.
AddData_IgnoresAddError(s, rec, f) ==
    LET s1 == schemaAddData(s, rec)
    IN  IF s1.rowGroupFlushSize > 0 /\ DataSize(s1) >= s1.rowGroupFlushSize
        THEN FlushRowGroup(s1, f)
        ELSE [s1 EXCEPT !.err = Nil]

\* Variant: the record is taken out again when the auto flush fails.
AddData_RollsBackOnFlushError(s, rec, f) ==
    LET s1 == schemaAddData(s, rec)
    IN  IF s1.err # Nil THEN s1
        ELSE IF s1.rowGroupFlushSize > 0 /\ DataSize(s1) >= s1.rowGroupFlushSize
             THEN LET s2 == FlushRowGroup(s1, f)
                  IN  IF s2.err # Nil
                      THEN [s2 EXCEPT !.numRecords = s.numRecords,
                                      !.dataSize = s.dataSize]
                      ELSE s2
             ELSE s1

\* AddData: the accumulator's add, then the auto flush.
AddData(s, rec, f) ==
    LET s1 == schemaAddData(s, rec)
    IN  IF s1.err # Nil THEN s1
        ELSE IF s1.rowGroupFlushSize > 0 /\ DataSize(s1) >= s1.rowGroupFlushSize
             THEN FlushRowGroup(s1, f)
             ELSE s1

\* Variant: an empty value is emitted as a present, empty value.
KeyValueList_NeverAbsent(s, p) ==
    [i \in 1..Len(p) |-> [Key |-> p[i], Value |-> << s.kvStore[p[i]] >>]]

\* The key/value list Close builds when its range over kvStore visits the
\* keys in the order p: an empty value becomes an absent one.
KeyValueList(s, p) ==
    [i \in 1..Len(p) |->
        [Key |-> p[i],
         Value |-> IF s.kvStore[p[i]] = <<>> THEN <<>> ELSE << s.kvStore[p[i]] >>]]

\* Variant: the error of the length write is dropped.
WriteFooter_IgnoresLenError(s, meta, f) ==
    LET before == s.pos
        s2 == writeThrift(s, meta, f)
    IN  IF s2.err # Nil THEN s2
        ELSE LET ln == ToInt32(BigSub(s2.pos, before))
                 s3 == binaryWrite(s2, ln, f)
             IN  writeFull(s3, "trailer", magic, f)

\* The footer, its length and the trailing magic, for the metadata `meta`.
WriteFooter(s, meta, f) ==
    LET before == s.pos
        s2 == writeThrift(s, meta, f)
    IN  IF s2.err # Nil THEN s2
        ELSE LET ln == ToInt32(BigSub(s2.pos, before))
                 s3 == binaryWrite(s2, ln, f)
             IN  IF s3.err # Nil THEN s3
                 ELSE writeFull(s3, "trailer", magic, f)

\* Variant: the footer is built from the row groups before the final flush.
Close_MetaBeforeFlush(s, p, f) ==
    LET s1 == IF rowGroupNumRecords(s) > 0 THEN FlushRowGroup(s, f)
                                           ELSE [s EXCEPT !.err = Nil]
    IN  IF s1.err # Nil THEN s1
        ELSE WriteFooter(s1, [Version |-> 1,
                              NumRows |-> s.totalNumRecords,
                              RowGroups |-> s.rowGroups,
                              KeyValueMetadata |-> KeyValueList(s, p)], f)

\* Variant: the final flush is made with nothing buffered, too.
Close_AlwaysFlushes(s, p, f) ==
    LET s1 == FlushRowGroup(s, f)
    IN  IF s1.err # Nil THEN s1
        ELSE WriteFooter(s1, [Version |-> 1,
                              NumRows |-> s1.totalNumRecords,
                              RowGroups |-> s1.rowGroups,
                              KeyValueMetadata |-> KeyValueList(s1, p)], f)

\* Variant: a Close after a footer was written in full writes nothing.
Close_OnlyOnce(s, p, f) ==
    IF \E i \in DOMAIN s.log : s.log[i].kind = "trailer" /\ s.log[i].err = Nil
    THEN [s EXCEPT !.err = Nil]
    ELSE LET s1 == IF rowGroupNumRecords(s) > 0 THEN FlushRowGroup(s, f)
                                                ELSE [s EXCEPT !.err = Nil]
         IN  IF s1.err # Nil THEN s1
             ELSE WriteFooter(s1, [Version |-> 1,
                                   NumRows |-> s1.totalNumRecords,
                                   RowGroups |-> s1.rowGroups,
                                   KeyValueMetadata |-> KeyValueList(s1, p)], f)

\* Close: the final flush, the footer, its length and the trailing magic.
Close(s, p, f) ==
    LET s1 == IF rowGroupNumRecords(s) > 0 THEN FlushRowGroup(s, f)
                                           ELSE [s EXCEPT !.err = Nil]
    IN  IF s1.err # Nil THEN s1
        ELSE LET meta == [Version |-> 1,
                          NumRows |-> s1.totalNumRecords,
                          RowGroups |-> s1.rowGroups,
                          KeyValueMetadata |-> KeyValueList(s1, p)]
             IN  WriteFooter(s1, meta, f)

CurrentRowGroupSize(s) == DataSize(s)

\* Variant: the buffered data counts as written.
CurrentFileSize_CountsBuffered(s) == BigAdd(s.pos, Big(DataSize(s)))

CurrentFileSize(s) == s.pos

----------------------------------------------------------------------------
\* The calls a caller can make

NoObs == [op |-> "none", val |-> Big(0)]

NumFaults == Cardinality({i \in DOMAIN hist : hist[i].faulted})

\* The failures that may still be injected into the next call.
FaultChoices == IF NumFaults < MaxFailures THEN Faults \cup {NoFault} ELSE {NoFault}

\* The state after a call that left the writer as r and is recorded as h.
Commit(r, h) ==
    /\ out' = r.out
    /\ pos' = r.pos
    /\ numRecords' = r.numRecords
    /\ dataSize' = r.dataSize
    /\ totalNumRecords' = r.totalNumRecords
    /\ rowGroups' = r.rowGroups
    /\ log' = r.log
    /\ hist' = Append(hist, h)
    /\ obs' = NoObs
    /\ UNCHANGED << rowGroupFlushSize, kvStore >>

Init ==
    /\ out = <<>>
    /\ pos = Big(0)
    /\ numRecords = 0
    /\ dataSize = 0
    /\ totalNumRecords = 0
    /\ rowGroups = <<>>
    /\ rowGroupFlushSize \in Thresholds
    /\ kvStore \in KvStores
    /\ log = <<>>
    /\ hist = <<>>
    /\ obs = NoObs

CallAddData ==
    /\ Len(hist) < MaxCalls
    /\ \E rec \in Records, f \in FaultChoices :
          \E r \in {AddData(St, rec, f)} :
              /\ f = NoFault \/ r.fired
              /\ Commit(r, [op |-> "AddData", err |-> r.err, rec |-> << rec >>,
                            faulted |-> r.fired])

CallFlushRowGroup ==
    /\ Len(hist) < MaxCalls
    /\ \E f \in FaultChoices :
          \E r \in {FlushRowGroup(St, f)} :
              /\ f = NoFault \/ r.fired
              /\ Commit(r, [op |-> "FlushRowGroup", err |-> r.err, rec |-> <<>>,
                            faulted |-> r.fired])

CallClose ==
    /\ Len(hist) < MaxCalls
    /\ \E f \in FaultChoices, p \in Orders(DOMAIN kvStore) :
          \E r \in {Close(St, p, f)} :
              /\ f = NoFault \/ r.fired
              /\ Commit(r, [op |-> "Close", err |-> r.err, rec |-> <<>>,
                            faulted |-> r.fired])

CallCurrentRowGroupSize ==
    /\ Len(hist) < MaxCalls
    /\ obs' = [op |-> "CurrentRowGroupSize", val |-> Big(CurrentRowGroupSize(St))]
    /\ UNCHANGED << out, pos, numRecords, dataSize, totalNumRecords, rowGroups,
                    rowGroupFlushSize, kvStore, log, hist >>

CallCurrentFileSize ==
    /\ Len(hist) < MaxCalls
    /\ obs' = [op |-> "CurrentFileSize", val |-> CurrentFileSize(St)]
    /\ UNCHANGED << out, pos, numRecords, dataSize, totalNumRecords, rowGroups,
                    rowGroupFlushSize, kvStore, log, hist >>

Next ==
    \/ CallAddData
    \/ CallFlushRowGroup
    \/ CallClose
    \/ CallCurrentRowGroupSize
    \/ CallCurrentFileSize

Spec == Init /\ [][Next]_vars

----------------------------------------------------------------------------
\* Readings of the two histories

Last == hist[Len(hist)]

Calls(op) == {i \in DOMAIN hist : hist[i].op = op}

IsAccepted(h) == h.op = "AddData" /\ h.rec[1].valid

\* The AddData calls whose record the accumulator accepted.
Accepted == {i \in Calls("AddData") : hist[i].rec[1].valid}

\* Some write to the sink failed.
SinkFailed == \E i \in DOMAIN log : log[i].err = ErrIO

\* The latest call is a Close that returned no error.
ClosedOk == hist # <<>> /\ Last.op = "Close" /\ Last.err = Nil

\* The latest call is a Close that returned no error and no Close came before.
FirstCloseOk == ClosedOk /\ Calls("Close") = {Len(hist)}

\* The indices of the log entries of one kind.
Writes(kind) == {i \in DOMAIN log : log[i].kind = kind}

----------------------------------------------------------------------------
\* C1: when at least one record was accepted and no sink write failed, then
\* after the first Close has returned without error the first 4 bytes of the
\* output are the magic constant and so are the last 4 bytes.
C1_MagicAtBothEnds ==
    (FirstCloseOk /\ Accepted # {} /\ ~SinkFailed)
        => /\ FirstBytes(out, 4) = MagicBytes
           /\ LastBytes(out, 4) = MagicBytes

C1_Witness ==
    /\ FirstCloseOk /\ Accepted # {} /\ ~SinkFailed
    /\ Len(rowGroups) = 2
    /\ FirstBytes(out, 4) = MagicBytes

C3_FooterLengthExact ==
    ClosedOk =>
        LET footer == log[Len(log) - 2]
            ln == GetInt32LE(SubSeq(LastBytes(out, 8), 1, 4))
        IN  /\ footer.kind = "footer"
            /\ ln >= 0
            /\ Big(ln) = BLen(footer.bs)

\* The same for the footers of fewer than 2^31 bytes, which an int32 holds.
C3_FooterLengthExactBelow2GiB ==
    (ClosedOk /\ BLen(log[Len(log) - 2].bs).hi < Base \div 2)
        => LET ln == GetInt32LE(SubSeq(LastBytes(out, 8), 1, 4))
           IN  ln >= 0 /\ Big(ln) = BLen(log[Len(log) - 2].bs)

----------------------------------------------------------------------------
\* The row groups the serializer wrote in full before the i-th write.
IsFlushed(e) == e.kind = "rowgroup" /\ e.err = Nil

FlushedBefore(i) == SelectSeq(SubSeq(log, 1, i - 1), IsFlushed)

\* The footer written at the i-th write lists every row group flushed before
\* it, once, in flush order.
FooterListsFlushed(i) ==
    LET rgs == log[i].meta[1].RowGroups
        fl == FlushedBefore(i)
    IN  /\ Len(rgs) = Len(fl)
        /\ \A k \in DOMAIN rgs :
              /\ rgs[k].Columns[1].FileOffset = fl[k].at
              /\ rgs[k].Columns[1].TotalSize = BLen(fl[k].bs)

\* Row-group bytes reached the sink after a footer blob was written.
RowGroupAfterFooter ==
    \E i \in Writes("footer"), j \in Writes("rowgroup") :
        log[i].err = Nil /\ log[j].bs # <<>> /\ i < j

\* C4 as stated: no row-group bytes are written after the footer blob, and
\* every footer lists every flushed row group once, in flush order.
C4_FooterLast ==
    /\ ~RowGroupAfterFooter
    /\ \A i \in Writes("footer") : FooterListsFlushed(i)

\* C4 as amended: row-group bytes are written after a footer blob only when
\* a record was buffered by an AddData that came after a Close; every footer
\* lists every row group flushed before it once, in flush order.
C4_FooterLastUnlessAddAfterClose ==
    /\ RowGroupAfterFooter =>
          \E c \in Calls("Close"), a \in Accepted : c < a
    /\ \A i \in Writes("footer") : FooterListsFlushed(i)

\* A Close that made the final flush and wrote a footer listing two row
\* groups: one flushed by the first AddData, one by the Close.
C4_Witness ==
    /\ ClosedOk
    /\ rowGroupFlushSize = 2
    /\ Len(hist) = 3 /\ IsAccepted(hist[1]) /\ IsAccepted(hist[2])
    /\ hist[1].rec[1].size = 2 /\ hist[2].rec[1].size = 1
    /\ Len(log[Len(log) - 2].meta[1].RowGroups) = 2

----------------------------------------------------------------------------
\* The sizes of the accepted records, in the order of their AddData calls.
AcceptedSizes ==
    LET acc == SelectSeq(hist, IsAccepted)
    IN  [i \in DOMAIN acc |-> acc[i].rec[1].size]

\* The record counts of the row groups that records of these sizes make
\* under the threshold T: a row group ends at each record with which the
\* buffered size reaches T, and the records left over make a last one.
RECURSIVE ExpectedGroups(_, _, _, _)
ExpectedGroups(sizes, T, count, size) ==
    IF sizes = <<>> THEN (IF count > 0 THEN << count >> ELSE <<>>)
    ELSE IF T > 0 /\ size + Head(sizes) >= T
         THEN << count + 1 >> \o ExpectedGroups(Tail(sizes), T, 0, 0)
         ELSE ExpectedGroups(Tail(sizes), T, count + 1, size + Head(sizes))

RECURSIVE SumSeq(_)
SumSeq(q) == IF q = <<>> THEN 0 ELSE Head(q) + SumSeq(Tail(q))

NumRowsOf(rgs) == [k \in DOMAIN rgs |-> rgs[k].NumRows]

NoFaults == \A i \in DOMAIN hist : ~hist[i].faulted

----------------------------------------------------------------------------
\* The call that a step makes, when it makes one.
CallStep(op) == Len(hist') = Len(hist) + 1 /\ hist'[Len(hist')].op = op

WriterUnchanged ==
    UNCHANGED << rowGroups, totalNumRecords, out, pos, numRecords, dataSize, log >>

\* C6: rowGroups has one descriptor per successful flush, totalNumRecords is
\* the sum of their record counts, and totalNumRecords changes only in a step
\* that flushes a row group in full, by the number of records buffered then.
C6_CountsFollowFlushes ==
    /\ [](/\ Len(rowGroups) = Cardinality({i \in Writes("rowgroup") : log[i].err = Nil})
          /\ totalNumRecords = SumSeq(NumRowsOf(rowGroups)))
    /\ [][totalNumRecords' # totalNumRecords =>
            /\ Len(rowGroups') = Len(rowGroups) + 1
            /\ \E j \in (Len(log) + 1)..Len(log') : IsFlushed(log'[j])
            /\ totalNumRecords' - totalNumRecords
                 = numRecords + (IF CallStep("AddData") THEN 1 ELSE 0)]_vars

\* Two flushes succeeded, the second after a flush that failed.
C6_Witness ==
    /\ Len(rowGroups) = 2
    /\ totalNumRecords = 3
    /\ \E i \in DOMAIN log : log[i].kind = "rowgroup" /\ log[i].err # Nil

\* C7: no descriptor in rowGroups has a record count of zero.
C7_NoEmptyRowGroup ==
    \A i \in DOMAIN rowGroups : rowGroups[i].NumRows >= 1

\* A flush and a Close were called with nothing buffered.
C7_Witness ==
    /\ rowGroups # <<>>
    /\ \E i \in Calls("FlushRowGroup") : hist[i].err = ErrNothingToWrite
    /\ ClosedOk

\* C8: a FlushRowGroup called with nothing buffered returns the empty-flush
\* error and changes nothing; so does a FlushRowGroup that directly follows a
\* successful one.
C8_EmptyFlushNoEffect ==
    [][CallStep("FlushRowGroup") =>
        /\ numRecords = 0 =>
              /\ hist'[Len(hist')].err = ErrNothingToWrite
              /\ WriterUnchanged
        /\ (hist # <<>> /\ Last.op = "FlushRowGroup" /\ Last.err = Nil) =>
              /\ hist'[Len(hist')].err = ErrNothingToWrite
              /\ Len(rowGroups') = Len(rowGroups)]_vars

C8_Witness ==
    /\ Len(hist) >= 2
    /\ hist[Len(hist) - 1].op = "FlushRowGroup" /\ hist[Len(hist) - 1].err = Nil
    /\ Last.op = "FlushRowGroup" /\ Last.err = ErrNothingToWrite
    /\ Len(rowGroups) = 1

C10_RejectedAddNoEffect ==
    [][(CallStep("AddData") /\ ~hist'[Len(hist')].rec[1].valid) =>
        /\ hist'[Len(hist')].err = ErrEncoding
        /\ WriterUnchanged]_vars

\* A record was rejected while the buffered size was at the threshold.
C10_Witness ==
    /\ hist # <<>> /\ Last.op = "AddData" /\ Last.err = ErrEncoding
    /\ rowGroupFlushSize > 0 /\ dataSize >= rowGroupFlushSize

----------------------------------------------------------------------------
\* The writes a step issues, in order.
NewWrites == SubSeq(log', Len(log) + 1, Len(log'))

KindsOf(ws) == [i \in DOMAIN ws |-> ws[i].kind]

\* C11: a FlushRowGroup that fails at the leading magic or in the serializer
\* returns that error, appends no descriptor, leaves totalNumRecords and the
\* buffered records as they were, and leaves the sink as it was when none of
\* its writes put a byte in the sink.
C11_FailedFlushKeepsState ==
    [][(CallStep("FlushRowGroup")
        /\ hist'[Len(hist')].err \notin {Nil, ErrNothingToWrite}) =>
        /\ NewWrites # <<>>
        /\ NewWrites[Len(NewWrites)].kind \in {"magic", "rowgroup"}
        /\ NewWrites[Len(NewWrites)].err = hist'[Len(hist')].err
        /\ UNCHANGED << rowGroups, totalNumRecords, numRecords, dataSize >>
        /\ numRecords >= 1
        /\ (\A i \in DOMAIN NewWrites : NewWrites[i].bs = <<>>) =>
              UNCHANGED << out, pos >>]_vars

\* A flush failed at the magic with nothing written and two records buffered.
C11_Witness ==
    /\ hist # <<>> /\ Last.op = "FlushRowGroup" /\ Last.err = ErrIO
    /\ out = <<>> /\ pos = Big(0)
    /\ numRecords = 2 /\ rowGroups = <<>>

\* The writes of a Close that meets no failure, from the state it starts in.
CloseWrites ==
    (IF numRecords > 0
     THEN (IF pos = Big(0) THEN << "magic" >> ELSE <<>>) \o << "rowgroup" >>
     ELSE <<>>)
    \o << "footer", "len", "trailer" >>

\* C12: a Close returns no error exactly when it issued the final flush (when
\* records were buffered), the footer, the length and the trailing magic, in
\* that order and each without error; otherwise it returns the error of the
\* step that failed and issues no write after it.
C12_CloseAllOrError ==
    [][CallStep("Close") =>
        LET ws == NewWrites
            err == hist'[Len(hist')].err
        IN  /\ ws # <<>>
            /\ Len(ws) <= Len(CloseWrites)
            /\ KindsOf(ws) = SubSeq(CloseWrites, 1, Len(ws))
            /\ \A i \in 1..(Len(ws) - 1) : ws[i].err = Nil
            /\ ws[Len(ws)].err = err
            /\ err = Nil => Len(ws) = Len(CloseWrites)
            /\ Len(ws) < Len(CloseWrites) => err # Nil]_vars

\* A Close whose final flush failed, so that it wrote no footer.
C12_Witness ==
    /\ hist # <<>> /\ Last.op = "Close" /\ Last.err = ErrSerialize
    /\ Writes("footer") = {}
    /\ numRecords >= 1

\* C13: the key/value list of every footer has one entry per key of the
\* map; the entry of an empty value has no value, the entry of a non-empty
\* value has that value, and the encoder writes the two differently.
C13_KeyValueEntries ==
    \A i \in Writes("footer") :
        LET kv == log[i].meta[1].KeyValueMetadata
        IN  /\ Len(kv) = Cardinality(DOMAIN kvStore)
            /\ {kv[k].Key : k \in DOMAIN kv} = DOMAIN kvStore
            /\ \A k \in DOMAIN kv :
                  /\ kvStore[kv[k].Key] = <<>> => kv[k].Value = <<>>
                  /\ kvStore[kv[k].Key] # <<>> => kv[k].Value = << kvStore[kv[k].Key] >>
                  /\ EncodeKeyValues(<< kv[k] >>)
                       # EncodeKeyValues(<< [Key |-> kv[k].Key, Value |-> << <<>> >>] >>)
                         \/ kv[k].Value = << <<>> >>

\* A footer with an absent value for "a" and the value "x" for "b".
C13_Witness ==
    \E i \in Writes("footer") :
        LET kv == log[i].meta[1].KeyValueMetadata
        IN  /\ log[i].err = Nil
            /\ Len(kv) = 2
            /\ \E k \in DOMAIN kv : kv[k].Key = "a" /\ kv[k].Value = <<>>
            /\ \E k \in DOMAIN kv : kv[k].Key = "b" /\ kv[k].Value = << Str(120) >>

----------------------------------------------------------------------------
\* The latest call is the first flush of a row group, made by FlushRowGroup.
AfterFirstFlush ==
    /\ hist # <<>> /\ Last.op = "FlushRowGroup" /\ Last.err = Nil
    /\ Len(rowGroups) = 1

\* What the two size queries return and leave alone, and what an AddData
\* that writes nothing leaves of the file size.
SizeQueriesFrame ==
    /\ (CallStep("AddData") /\ NewWrites = <<>>)
          => CurrentFileSize(St)' = CurrentFileSize(St)
    /\ hist' = hist =>
          /\ WriterUnchanged
          /\ UNCHANGED << rowGroupFlushSize, kvStore >>
          /\ obs'.op = "CurrentFileSize" => obs'.val = pos
          /\ obs'.op = "CurrentRowGroupSize" => obs'.val = Big(dataSize)

\* C14 as stated: CurrentFileSize is the sink's offset; right after the first
\* successful FlushRowGroup it is 4 plus the bytes the serializer wrote in
\* that flush; an AddData without a flush leaves it as it was; the two size
\* queries change nothing of the writer.
C14_FileSizeAfterFirstFlush ==
    /\ [](AfterFirstFlush =>
            CurrentFileSize(St)
              = BigAdd(Big(4), rowGroups[1].Columns[1].TotalSize))
    /\ [][SizeQueriesFrame]_vars

\* C14, amended: the same, with the value after the first successful
\* FlushRowGroup stated for a flush that began at sink offset 0.
C14_FileSizeAfterFirstFlushAtOffset0 ==
    [][/\ (CallStep("FlushRowGroup") /\ hist'[Len(hist')].err = Nil
            /\ rowGroups = <<>> /\ pos = Big(0))
          => CurrentFileSize(St)'
               = BigAdd(Big(4), rowGroups'[1].Columns[1].TotalSize)
       /\ SizeQueriesFrame]_vars

\* CurrentFileSize was read right after the first flush, which began at
\* offset 0 and wrote a payload of 3 bytes.
C14_Witness ==
    /\ AfterFirstFlush
    /\ KindsOf(log) = << "magic", "rowgroup" >>
    /\ obs = [op |-> "CurrentFileSize", val |-> Big(7)]

RECURSIVE BytesOf(_)
BytesOf(ws) == IF ws = <<>> THEN <<>> ELSE ws[1].bs \o BytesOf(Tail(ws))

\* The writes are a magic at offset 0, row groups, a footer, a length and a
\* magic, and the output holds their bytes and nothing else.
FileLayout ==
    /\ Len(log) >= 4
    /\ log[1].kind = "magic" /\ log[1].at = Big(0)
    /\ \A i \in 2..(Len(log) - 3) : log[i].kind = "rowgroup"
    /\ KindsOf(SubSeq(log, Len(log) - 2, Len(log)))
         = << "footer", "len", "trailer" >>
    /\ FirstBytes(out, 4) = MagicBytes
    /\ LastBytes(out, 4) = MagicBytes
    /\ out = BytesOf(log)

\* C15: in every run that ends with a Close that returns no error, with or
\* without records, the output is the magic at offset 0, the row groups, the
\* footer, its 4-byte length and the trailing magic, and nothing else.
C15_OutputLayout == (FirstCloseOk /\ NoFaults) => FileLayout

\* The layout holds when the run flushed at least one row group.
C15_OutputLayoutWithRowGroup ==
    (FirstCloseOk /\ NoFaults /\ rowGroups # <<>>) => FileLayout

\* C16 as stated: a Close right after a Close that returned no error appends
\* no descriptor and writes no footer.
C16_SecondCloseWritesNothing ==
    [][(CallStep("Close") /\ ClosedOk) =>
        /\ rowGroups' = rowGroups
        /\ \A i \in DOMAIN NewWrites : NewWrites[i].kind # "footer"]_vars

\* C16, amended: a Close right after a Close that returned no error flushes
\* nothing and appends no descriptor, and writes the footer again, with the
\* row groups and row count of the footer before it, then the length and
\* the magic.
C16_SecondCloseWritesFooterAgain ==
    [][(CallStep("Close") /\ ClosedOk) =>
        /\ UNCHANGED << rowGroups, totalNumRecords, numRecords, dataSize >>
        /\ NewWrites # <<>>
        /\ KindsOf(NewWrites)
             = SubSeq(<< "footer", "len", "trailer" >>, 1, Len(NewWrites))
        /\ NewWrites[1].meta[1].RowGroups = log[Len(log) - 2].meta[1].RowGroups
        /\ NewWrites[1].meta[1].NumRows = log[Len(log) - 2].meta[1].NumRows
        /\ hist'[Len(hist')].err = Nil => Len(NewWrites) = 3]_vars

\* Two Close calls in a row returned no error and two footers were written.
C16_Witness ==
    /\ Len(hist) >= 2 /\ ClosedOk
    /\ hist[Len(hist) - 1].op = "Close" /\ hist[Len(hist) - 1].err = Nil
    /\ Cardinality({i \in Writes("footer") : log[i].err = Nil}) = 2
    /\ Cardinality({i \in Writes("trailer") : log[i].err = Nil}) = 2

----------------------------------------------------------------------------
IsPrefix(a, c) == Len(a) <= Len(c) /\ SubSeq(c, 1, Len(a)) = a

BigLeq(a, c) == a.hi < c.hi \/ (a.hi = c.hi /\ a.lo <= c.lo)

\* C17: every step keeps the descriptors appended and the bytes written
\* before it, never lowers the sink's offset, and lengthens rowGroups by one
\* when it flushes a row group in full and by nothing otherwise.
C17_AppendOnly ==
    [][/\ IsPrefix(rowGroups, rowGroups')
       /\ IsPrefix(out, out')
       /\ IsPrefix(log, log')
       /\ BigLeq(pos, pos')
       /\ Len(rowGroups') - Len(rowGroups)
            = IF \E i \in DOMAIN NewWrites : IsFlushed(NewWrites[i]) THEN 1 ELSE 0]_vars

\* Two row groups were flushed, then a flush failed, leaving part of a
\* payload in the sink.
C17_Witness ==
    /\ Len(rowGroups) = 2
    /\ hist # <<>> /\ Last.err = ErrIO
    /\ \E i \in Writes("rowgroup") : log[i].err # Nil /\ log[i].bs # <<>>

\* C18: an AddData whose record was accepted and whose auto flush failed
\* returns the error of the flush and leaves the record buffered; no accepted
\* record is ever lost, each is either buffered or in a flushed row group,
\* and a later flush that succeeds writes all buffered records.
C18_RecordKeptWhenAutoFlushFails ==
    /\ [](Cardinality(Accepted) = totalNumRecords + numRecords)
    /\ [][(CallStep("AddData") /\ IsAccepted(hist'[Len(hist')])
            /\ hist'[Len(hist')].err # Nil) =>
             /\ NewWrites # <<>>
             /\ NewWrites[Len(NewWrites)].err = hist'[Len(hist')].err
             /\ numRecords' = numRecords + 1
             /\ dataSize' = dataSize + hist'[Len(hist')].rec[1].size
             /\ UNCHANGED << rowGroups, totalNumRecords >>]_vars
    /\ [][Len(rowGroups') > Len(rowGroups) =>
             /\ numRecords' = 0
             /\ rowGroups'[Len(rowGroups')].NumRows
                  = Cardinality(Accepted') - totalNumRecords]_vars

\* An AddData returned the error of its auto flush, and the next call, a
\* FlushRowGroup or a Close, wrote its record.
C18_Witness ==
    /\ Len(hist) >= 2
    /\ IsAccepted(hist[Len(hist) - 1])
    /\ hist[Len(hist) - 1].err \in {ErrIO, ErrSerialize}
    /\ Last.op \in {"FlushRowGroup", "Close"} /\ Last.err = Nil
    /\ rowGroups # <<>>
    /\ totalNumRecords = Cardinality(Accepted)

C20_EmptyFlushErrorOnlyDirect ==
    \A i \in DOMAIN hist :
        hist[i].err = ErrNothingToWrite => hist[i].op = "FlushRowGroup"

\* A Close with nothing buffered returned no error, after an AddData whose
\* auto flush had emptied the accumulator.
C20_Witness ==
    /\ Len(hist) = 2 /\ ClosedOk
    /\ hist[1].op = "AddData" /\ hist[1].err = Nil
    /\ Len(rowGroups) = 1
    /\ KindsOf(log) = << "magic", "rowgroup", "footer", "len", "trailer" >>

====
